---- MODULE Spec2Model ----
(***************************************************************************)
(* Model of the stable-memory allocator of ic-stable-memory                *)
(* (src/src/mem/allocator.rs).                                             *)
(*                                                                         *)
(* Stable memory is a zero-initialised array of 8-byte words, kept sparse: *)
(* mem maps the addresses of the non-zero words to their value.  A word is *)
(* a pair <<lo, hi>>: lo is the low 63 bits and hi the top bit, which is   *)
(* the "allocated" flag of a block sentinel.                               *)
(* A block at ptr with payload size s occupies [ptr, ptr + s + 16): its    *)
(* header sentinel is the word at ptr, its payload starts at ptr + 8 and   *)
(* its footer sentinel is the word at ptr + 8 + s.                         *)
(*                                                                         *)
(* The second part models the certified hash map node                      *)
(* (src/src/collections/certified_hash_map/node.rs) and the Merkle witness *)
(* (src/src/utils/certification.rs).  The allocator runs under Spec with   *)
(* no node created; the node runs under NodeSpec on its own table.         *)
(***************************************************************************)
EXTENDS Integers, Sequences, FiniteSets, TLC

VARIABLES free_blocks, custom_data_pointers, free_size, available_size, max_ptr,
          mem, pages, image, pc, live, last, snap, ops,
          table, called, history

alloc_vars == <<free_blocks, custom_data_pointers, free_size, available_size, max_ptr>>
\* the certified hash map node: its table, the last call made on it and the calls so far
node_vars == <<table, called, history>>
vars == <<free_blocks, custom_data_pointers, free_size, available_size, max_ptr,
          mem, pages, image, pc, live, last, snap, ops, table, called, history>>

\* ------------------------------------------------------------ constants
ALLOCATOR_PTR == 0
MIN_PTR == 8
PTR_SIZE == 8
PAGE_SIZE_BYTES == 65536
STORE_SLACK == 100

\* ------------------------------------------------------------ bounds
\* pages the host is able to provide before stable::grow answers OutOfMemory
MaxPages == 4
\* calls the client makes in one behaviour, its writes into a slice included
\* (retrieve, which has to follow store, is not counted)
MaxOps == 6
\* slices the client holds at the same time
MaxLive == 3
\* request sizes the client draws from
ReqSizes == {1, 65500, 65528, 65536}
\* custom data slots and the pointers the client stores in them
Slots == {0, 1}
SlotPtrs == {16, 24}
\* the two words a client writes into a slice (first and last payload word);
\* read as sentinels they are free blocks of 16 and of 65528 bytes, sizes that
\* blocks of the free lists have
DataFirst == <<16, FALSE>>
DataLast == <<65528, FALSE>>

\* ------------------------------------------------------------ helpers
ZeroWord == <<0, FALSE>>
EmptyMap == [x \in {} |-> 0]
NoSlice == [ptr |-> 0, size |-> 0]

PutFn(f, k, v) == [x \in (DOMAIN f) \cup {k} |-> IF x = k THEN v ELSE f[x]]
DelFn(f, k) == [x \in (DOMAIN f) \ {k} |-> f[x]]

\* host memory primitives: read / write of one 8-byte word
ReadWord(m, a) == IF a \in DOMAIN m THEN m[a] ELSE ZeroWord
WriteWord(m, a, w) == IF w = ZeroWord THEN DelFn(m, a) ELSE PutFn(m, a, w)

\* read_bytes(ptr, buf) with len(buf) = len: the words of [from, from + len), by offset
read_bytes(m, from, len) ==
    [o \in {a - from : a \in {x \in DOMAIN m : x >= from /\ x < from + len}} |-> m[from + o]]

\* write_bytes(ptr, buf): raw host write of len bytes at to, not bounds-checked
write_bytes(m, to, b, len) ==
    LET keep == {x \in DOMAIN m : x < to \/ x >= to + len}
        put == {to + o : o \in DOMAIN b}
    IN [a \in keep \cup put |-> IF a \in put THEN b[a - to] ELSE m[a]]

ceil_div(a, b) == (a + b - 1) \div b

\* ------------------------------------------------------------ FreeBlock / SSlice
FreeBlock(ptr, size) == [ptr |-> ptr, size |-> size]
get_total_size_bytes(b) == b.size + PTR_SIZE * 2
new_total_size(ptr, total) == FreeBlock(ptr, total - PTR_SIZE * 2)

\* both sentinels of the block, with the given allocated flag
WriteSentinels(m, b, allocated) ==
    WriteWord(WriteWord(m, b.ptr, <<b.size, allocated>>),
              b.ptr + PTR_SIZE + b.size, <<b.size, allocated>>)

persist(m, b) == WriteSentinels(m, b, FALSE)
to_allocated(m, b) == WriteSentinels(m, b, TRUE)
to_free_block(m, s) == WriteSentinels(m, s, FALSE)

NoBlock == FreeBlock(0, 0)

\* Some(block) is the block, None is NoBlock
prev_neighbor_is_free(m, b) ==
    IF b.ptr = MIN_PTR THEN NoBlock
    ELSE LET w == ReadWord(m, b.ptr - PTR_SIZE)
         IN IF w[2] THEN NoBlock
            ELSE FreeBlock(b.ptr - PTR_SIZE * 2 - w[1], w[1])

next_neighbor_is_free(m, b, maxp) ==
    LET np == b.ptr + PTR_SIZE * 2 + b.size
    IN IF np >= maxp THEN NoBlock
       ELSE LET w == ReadWord(m, np)
            IN IF w[2] THEN NoBlock ELSE FreeBlock(np, w[1])

merged_size(a, b) == a.size + b.size + PTR_SIZE * 2
merge(a, b) == FreeBlock(a.ptr, merged_size(a, b))
can_split(size, needed) == size >= needed + PTR_SIZE * 2 + PTR_SIZE * 2
split_a(b, new) == FreeBlock(b.ptr, new)
split_b(b, new) == FreeBlock(b.ptr + new + PTR_SIZE * 2, b.size - new - PTR_SIZE * 2)

\* ------------------------------------------------------------ allocator
\* A call works on one value st: fb, cdp, fs, av, mp are the fields of
\* StableMemoryAllocator; mem, pages and img are the host memory (img is the
\* content of the bootstrap slice); panic names the panic that ended the call,
\* if any; blk is the block the call works on and, at its end, the slice it
\* returns; tag is the path the call took.
pad_size(size) ==
    IF size < PTR_SIZE * 2 THEN PTR_SIZE * 2 ELSE ((size + 7) \div 8) * 8

get_allocated_size(st) == st.av - st.fs

\* variant: the grown block is not counted as available
more_available_size_none(st, additional) == st
more_available_size(st, additional) == [st EXCEPT !.av = @ + additional]
\* variant: only the payload of a freed block is counted
more_free_size_payload(st, additional) == [st EXCEPT !.fs = @ + (additional - PTR_SIZE * 2)]

more_free_size(st, additional) == [st EXCEPT !.fs = @ + additional]
\* variant: the payload size is subtracted, not the total size
less_free_size_payload(st, additional) == [st EXCEPT !.fs = @ - (additional - PTR_SIZE * 2)]
less_free_size(st, additional) == [st EXCEPT !.fs = @ - additional]

\* index at which binary_search finds or would insert the block (by pointer)
InsertIdx(blocks, b) == Cardinality({i \in 1..Len(blocks) : blocks[i].ptr < b.ptr}) + 1
Found(blocks, b) == \E i \in 1..Len(blocks) : blocks[i].ptr = b.ptr
InsertAt(s, i, e) == SubSeq(s, 1, i - 1) \o <<e>> \o SubSeq(s, i, Len(s))
RemoveAt(s, i) == SubSeq(s, 1, i - 1) \o SubSeq(s, i + 1, Len(s))
Bucket(fb, size) == IF size \in DOMAIN fb THEN fb[size] ELSE <<>>
SetBucket(fb, size, blocks) == IF blocks = <<>> THEN DelFn(fb, size) ELSE PutFn(fb, size, blocks)

push_free_block(st, b) ==
    IF st.panic # "none" THEN st
    ELSE IF Found(Bucket(st.fb, b.size), b)
    THEN [st EXCEPT !.mem = persist(@, b), !.panic = "unreachable"]
    ELSE [st EXCEPT !.mem = persist(@, b),
                    !.fb = PutFn(@, b.size,
                                 InsertAt(Bucket(@, b.size), InsertIdx(Bucket(@, b.size), b), b))]

\* the smallest size key >= size
RangeFirst(fb, size) ==
    CHOOSE k \in {x \in DOMAIN fb : x >= size} : \A k2 \in {x \in DOMAIN fb : x >= size} : k <= k2

\* variant: the block is handed out and stays in its bucket
pop_free_block_keep(st, size) ==
    IF {k \in DOMAIN st.fb : k >= size} = {} THEN [st EXCEPT !.blk = NoBlock]
    ELSE [st EXCEPT !.blk = st.fb[RangeFirst(st.fb, size)][Len(st.fb[RangeFirst(st.fb, size)])]]

\* variant: the block at the lowest address of the bucket is popped
pop_free_block_front(st, size) ==
    IF {k \in DOMAIN st.fb : k >= size} = {} THEN [st EXCEPT !.blk = NoBlock]
    ELSE [st EXCEPT !.blk = st.fb[RangeFirst(st.fb, size)][1],
                    !.fb = SetBucket(@, RangeFirst(@, size), Tail(@[RangeFirst(@, size)]))]

\* the popped block is left in blk; NoBlock (None) when no free block is big enough
pop_free_block(st, size) ==
    IF {k \in DOMAIN st.fb : k >= size} = {} THEN [st EXCEPT !.blk = NoBlock]
    ELSE [st EXCEPT !.blk = st.fb[RangeFirst(st.fb, size)][Len(st.fb[RangeFirst(st.fb, size)])],
                    !.fb = SetBucket(@, RangeFirst(@, size),
                                     SubSeq(@[RangeFirst(@, size)], 1,
                                            Len(@[RangeFirst(@, size)]) - 1))]

remove_free_block(st, b) ==
    IF st.panic # "none" THEN st
    ELSE IF b.size \notin DOMAIN st.fb THEN [st EXCEPT !.panic = "unwrap"]
    ELSE IF ~Found(st.fb[b.size], b) THEN [st EXCEPT !.panic = "unreachable"]
    ELSE [st EXCEPT !.fb = SetBucket(@, b.size, RemoveAt(@[b.size], InsertIdx(@[b.size], b)))]

\* stable::grow(n): Ok(previous pages), or Err(OutOfMemory) and the panic of the caller
stable_grow(st, n) ==
    IF st.pages + n <= MaxPages THEN [st EXCEPT !.pages = @ + n]
    ELSE [st EXCEPT !.panic = "OutOfMemory"]

\* the new tail block [st.mp, new_max_ptr) after the host grew (or not); it is left in blk
grow_claim(st, new_max_ptr) ==
    IF st.panic # "none" THEN [st EXCEPT !.blk = NoBlock]
    ELSE [st EXCEPT !.blk = new_total_size(st.mp, new_max_ptr - st.mp), !.mp = new_max_ptr]

\* the body of grow once max_ptr is past the root pointer word
grow_from(st, size, memory_grown) ==
    IF st.mp < memory_grown
    THEN IF memory_grown - st.mp < size + PTR_SIZE * 2
         THEN grow_claim(
                  stable_grow(st, ceil_div(size + PTR_SIZE * 2 - (memory_grown - st.mp),
                                           PAGE_SIZE_BYTES)),
                  (st.pages + ceil_div(size + PTR_SIZE * 2 - (memory_grown - st.mp),
                                       PAGE_SIZE_BYTES)) * PAGE_SIZE_BYTES)
         ELSE grow_claim(st, st.mp + (memory_grown - st.mp))
    ELSE grow_claim(stable_grow(st, ceil_div(size, PAGE_SIZE_BYTES)),
                    (st.pages + ceil_div(size, PAGE_SIZE_BYTES)) * PAGE_SIZE_BYTES)

grow(st, size) ==
    grow_from([st EXCEPT !.mp = IF @ = ALLOCATOR_PTR THEN MIN_PTR ELSE @],
              size, st.pages * PAGE_SIZE_BYTES)

\* allocate, lines 34-37: the grown block counts as available and as free
allocate_grown(st) ==
    IF st.panic # "none" THEN st
    ELSE more_free_size(more_available_size(st, get_total_size_bytes(st.blk)),
                        get_total_size_bytes(st.blk))

\* allocate, lines 31-40: the popped block if there is one, else a grown one
allocate_block(st, size) ==
    IF st.blk # NoBlock THEN st ELSE allocate_grown(grow(st, size))

\* variant: the block is never split
allocate_whole(st, size) == st

\* allocate, lines 42-48: split the block when it is big enough, keep the first half
allocate_split(st, size) ==
    IF st.panic # "none" THEN st
    ELSE IF can_split(st.blk.size, size)
    THEN [push_free_block(
              [st EXCEPT !.mem = persist(persist(@, split_a(st.blk, size)), split_b(st.blk, size))],
              split_b(st.blk, size))
          EXCEPT !.blk = split_a(st.blk, size)]
    ELSE st

\* allocate, lines 50-52
allocate_take(st) ==
    IF st.panic # "none" THEN [st EXCEPT !.blk = NoSlice]
    ELSE [less_free_size(st, get_total_size_bytes(st.blk)) EXCEPT !.mem = to_allocated(@, st.blk)]

\* the returned slice is left in blk
allocate(st, size0) ==
    IF st.panic # "none" THEN [st EXCEPT !.blk = NoSlice]
    ELSE allocate_take(
             allocate_split(allocate_block(pop_free_block(st, pad_size(size0)), pad_size(size0)),
                            pad_size(size0)))

\* variant: the previous neighbor is never merged
merge_prev_skip(st) == st

merge_prev(st) ==
    IF prev_neighbor_is_free(st.mem, st.blk) = NoBlock THEN st
    ELSE [remove_free_block(st, prev_neighbor_is_free(st.mem, st.blk))
          EXCEPT !.blk = merge(prev_neighbor_is_free(st.mem, st.blk), st.blk)]

\* variant: the next neighbor is never merged
merge_next_skip(st) == st

merge_next(st) ==
    IF next_neighbor_is_free(st.mem, st.blk, st.mp) = NoBlock THEN st
    ELSE [remove_free_block(st, next_neighbor_is_free(st.mem, st.blk, st.mp))
          EXCEPT !.blk = merge(st.blk, next_neighbor_is_free(st.mem, st.blk, st.mp))]

\* the merged block is left in blk
try_merge_with_neighbors(st, free_block) ==
    merge_next(merge_prev([st EXCEPT !.blk = free_block]))

push_blk(st) == push_free_block(st, st.blk)

deallocate(st, slice) ==
    push_blk(try_merge_with_neighbors(
                 more_free_size([st EXCEPT !.mem = to_free_block(@, slice)],
                                get_total_size_bytes(slice)),
                 slice))

\* variant: the merged block is kept whole, no remainder is split off
inplace_whole(st, merged, new_size) == [st EXCEPT !.tag = "Ok", !.blk = merged]

\* try_reallocate_in_place, lines 181-190, with the neighbor already absorbed
inplace_split(st, merged, new_size) ==
    IF ~can_split(merged.size, new_size) THEN [st EXCEPT !.tag = "Ok", !.blk = merged]
    ELSE [push_free_block(
              more_free_size(
                  [st EXCEPT !.mem = persist(persist(@, split_a(merged, new_size)),
                                             split_b(merged, new_size))],
                  get_total_size_bytes(split_b(merged, new_size))),
              split_b(merged, new_size))
          EXCEPT !.tag = "Ok", !.blk = split_a(merged, new_size)]

inplace_with(st, free_block, next_neighbor, new_size) ==
    IF next_neighbor = NoBlock THEN [st EXCEPT !.tag = "Err", !.blk = free_block]
    ELSE IF merged_size(free_block, next_neighbor) < new_size
    THEN [st EXCEPT !.tag = "Err", !.blk = free_block]
    ELSE inplace_split(
             remove_free_block(less_free_size(st, get_total_size_bytes(next_neighbor)),
                               next_neighbor),
             merge(free_block, next_neighbor), new_size)

\* tag is "Ok" or "Err", blk the block of the result
try_reallocate_in_place(st, free_block, new_size) ==
    inplace_with(st, free_block, next_neighbor_is_free(st.mem, free_block, st.mp), new_size)

\* variant: a shrinking reallocate splits the unused tail off and frees it
reallocate_fits_release(st, slice, new_size) ==
    IF ~can_split(slice.size, new_size)
    THEN [st EXCEPT !.blk = slice, !.tag = "same", !.variant = "Ok"]
    ELSE [push_free_block(
              more_free_size(
                  [st EXCEPT !.mem = to_allocated(persist(@, split_b(slice, new_size)),
                                                  split_a(slice, new_size))],
                  get_total_size_bytes(split_b(slice, new_size))),
              split_b(slice, new_size))
          EXCEPT !.blk = split_a(slice, new_size), !.tag = "same", !.variant = "Ok"]

\* reallocate, lines 68-70: the new size fits the slice as it is
reallocate_fits(st, slice, new_size) ==
    [st EXCEPT !.blk = slice, !.tag = "same", !.variant = "Ok"]

\* variant: b is read only after the old slice was freed and the new one allocated
move_payload_late(m_old, m_new, slice, new_slice) ==
    write_bytes(m_new, new_slice.ptr + PTR_SIZE,
                read_bytes(m_new, slice.ptr + PTR_SIZE, slice.size), slice.size)

\* reallocate, lines 81-82 and 94: b is read from the memory as it was before the
\* old slice was freed (m_old) and written to the new slice in m_new
move_payload(m_old, m_new, slice, new_slice) ==
    write_bytes(m_new, new_slice.ptr + PTR_SIZE,
                read_bytes(m_old, slice.ptr + PTR_SIZE, slice.size), slice.size)

reallocate_copy(st, m_old, slice) ==
    IF st.panic # "none" THEN [st EXCEPT !.blk = NoSlice, !.tag = "moved"]
    ELSE [st EXCEPT !.mem = move_payload(m_old, @, slice, st.blk), !.tag = "moved",
                    !.variant = "Ok"]

\* reallocate, lines 75-96, after try_reallocate_in_place answered
reallocate_rest(st, slice, new_size) ==
    IF st.tag = "Ok"
    THEN [st EXCEPT !.mem = to_allocated(@, st.blk), !.tag = "inplace", !.variant = "Ok"]
    ELSE reallocate_copy(
             allocate(push_blk(try_merge_with_neighbors(
                                   more_free_size(st, get_total_size_bytes(st.blk)), st.blk)),
                      new_size),
             st.mem, slice)

\* blk is the slice returned in Ok(..); tag names the path: "same", "inplace" or "moved"
reallocate(st, slice, size0) ==
    IF pad_size(size0) <= slice.size THEN reallocate_fits(st, slice, pad_size(size0))
    ELSE reallocate_rest(
             try_reallocate_in_place([st EXCEPT !.mem = to_free_block(@, slice)],
                                     slice, pad_size(size0)),
             slice, pad_size(size0))

\* Option<StablePtr>
None == [some |-> FALSE, ptr |-> 0]
Some(ptr) == [some |-> TRUE, ptr |-> ptr]

get_custom_data_ptr(st, idx) == IF idx \in DOMAIN st.cdp THEN Some(st.cdp[idx]) ELSE None

\* variant: a slot that is set keeps its first pointer
set_custom_data_ptr_once(st, idx, ptr) ==
    IF idx \in DOMAIN st.cdp THEN st ELSE [st EXCEPT !.cdp = PutFn(@, idx, ptr)]

\* HashMap::insert: the pointer is stored (run by the action with the previous
\* value, which is what the call returns)
set_custom_data_ptr(st, idx, ptr) == [st EXCEPT !.cdp = PutFn(@, idx, ptr)]

\* ------------------------------------------------------------ serialized form
\* as_dyn_size_bytes: the allocator as a sequence of 8-byte numbers:
\* the number of size buckets, then per bucket (ascending) its size, its length
\* and its blocks as (ptr, size); the number of custom pointers, then the
\* (slot, pointer) pairs; then free_size, available_size and max_ptr.
RECURSIVE SortedSeq(_)
SortedSeq(S) ==
    IF S = {} THEN <<>>
    ELSE <<CHOOSE x \in S : \A y \in S : x <= y>>
         \o SortedSeq(S \ {CHOOSE x \in S : \A y \in S : x <= y})

RECURSIVE EncodeBlocks(_)
EncodeBlocks(blocks) ==
    IF blocks = <<>> THEN <<>>
    ELSE <<Head(blocks).ptr, Head(blocks).size>> \o EncodeBlocks(Tail(blocks))

RECURSIVE EncodeBuckets(_, _)
EncodeBuckets(fb, keys) ==
    IF keys = <<>> THEN <<>>
    ELSE <<Head(keys), Len(fb[Head(keys)])>> \o EncodeBlocks(fb[Head(keys)])
         \o EncodeBuckets(fb, Tail(keys))

RECURSIVE EncodePairs(_, _)
EncodePairs(f, keys) ==
    IF keys = <<>> THEN <<>>
    ELSE <<Head(keys), f[Head(keys)]>> \o EncodePairs(f, Tail(keys))

as_dyn_size_bytes(st) ==
    <<Cardinality(DOMAIN st.fb)>> \o EncodeBuckets(st.fb, SortedSeq(DOMAIN st.fb))
    \o <<Cardinality(DOMAIN st.cdp)>> \o EncodePairs(st.cdp, SortedSeq(DOMAIN st.cdp))
    \o <<st.fs, st.av, st.mp>>

\* buf.len() in bytes
BufLen(buf) == 8 * Len(buf)

DecodeBlocks(buf, i, n) == [k \in 1..n |-> FreeBlock(buf[i + 2 * (k - 1)], buf[i + 2 * (k - 1) + 1])]

\* <<map, index after the buckets>>
RECURSIVE DecodeBuckets(_, _, _, _)
DecodeBuckets(buf, i, n, acc) ==
    IF n = 0 THEN <<acc, i>>
    ELSE DecodeBuckets(buf, i + 2 + 2 * buf[i + 1], n - 1,
                       PutFn(acc, buf[i], DecodeBlocks(buf, i + 2, buf[i + 1])))

RECURSIVE DecodePairs(_, _, _, _)
DecodePairs(buf, i, n, acc) ==
    IF n = 0 THEN <<acc, i>>
    ELSE DecodePairs(buf, i + 2, n - 1, PutFn(acc, buf[i], buf[i + 1]))

DecodeTotals(buf, fb, pairs) ==
    [fb |-> fb, cdp |-> pairs[1], fs |-> buf[pairs[2]], av |-> buf[pairs[2] + 1],
     mp |-> buf[pairs[2] + 2]]

DecodeAfterBuckets(buf, buckets) ==
    DecodeTotals(buf, buckets[1], DecodePairs(buf, buckets[2] + 1, buf[buckets[2]], EmptyMap))

\* from_dyn_size_bytes: the allocator fields read back from the buffer
from_dyn_size_bytes(buf) == DecodeAfterBuckets(buf, DecodeBuckets(buf, 2, buf[1], EmptyMap))

\* store, lines 106-109: the second encoding goes into the slice, its pointer to offset 0
store_write(st) ==
    IF st.panic # "none" THEN st
    ELSE [st EXCEPT !.img = as_dyn_size_bytes(st),
                    !.mem = WriteWord(@, ALLOCATOR_PTR, <<st.blk.ptr, FALSE>>)]

\* blk is the bootstrap slice
store(st) == store_write(allocate(st, BufLen(as_dyn_size_bytes(st)) + STORE_SLACK))

\* SSlice::from_ptr: the slice whose header is at ptr, NoSlice (None) if it is not allocated
from_ptr(m, ptr) ==
    IF ReadWord(m, ptr)[2] THEN [ptr |-> ptr, size |-> ReadWord(m, ptr)[1]] ELSE NoSlice

Installed(st, it) ==
    [st EXCEPT !.fb = it.fb, !.cdp = it.cdp, !.fs = it.fs, !.av = it.av, !.mp = it.mp,
               !.img = <<>>]

\* variant: the bootstrap slice is not freed
retrieve_from_keep(st, slice) ==
    IF slice = NoSlice THEN [st EXCEPT !.panic = "unwrap"]
    ELSE Installed(st, from_dyn_size_bytes(st.img))

retrieve_from(st, slice) ==
    IF slice = NoSlice THEN [st EXCEPT !.panic = "unwrap"]
    ELSE deallocate(Installed(st, from_dyn_size_bytes(st.img)), slice)

\* the allocator read back from the bootstrap slice the root pointer names, with
\* that slice freed; of st only the host memory is read
retrieve(st) == retrieve_from(st, from_ptr(st.mem, ReadWord(st.mem, ALLOCATOR_PTR)[1]))

\* ------------------------------------------------------------ state machine
Panics == {"OutOfMemory", "unreachable", "unwrap"}

State == [fb |-> free_blocks, cdp |-> custom_data_pointers, fs |-> free_size,
          av |-> available_size, mp |-> max_ptr, mem |-> mem, pages |-> pages,
          img |-> image, panic |-> "none", blk |-> NoBlock, tag |-> "none",
          variant |-> "none"]

\* the variables after a call that left the allocator and the memory as st
Becomes(st, running) ==
    /\ free_blocks' = st.fb
    /\ custom_data_pointers' = st.cdp
    /\ free_size' = st.fs
    /\ available_size' = st.av
    /\ max_ptr' = st.mp
    /\ mem' = st.mem
    /\ pages' = st.pages
    /\ image' = st.img
    /\ pc' = IF st.panic = "none" THEN running ELSE "aborted"
    /\ ops' = IF pc = "stored" THEN ops ELSE ops + 1

\* what the last call was: its request size, the slice passed in, the slice
\* returned, how it ended (the panic, or the path taken) and, for a call that
\* returns a Result, the variant returned
Event(op, req, arg, res, kind, variant) ==
    [op |-> op, req |-> req, arg |-> arg, res |-> res, kind |-> kind, variant |-> variant]
Outcome(st) == IF st.panic # "none" THEN st.panic ELSE st.tag

NoSnap == [set |-> FALSE]

\* no node was created
NoTable == [len |-> 0, capacity |-> 0]
NoCall == [op |-> "none"]
NoNode ==
    /\ table = NoTable
    /\ called = NoCall
    /\ history = <<>>

Init ==
    /\ free_blocks = EmptyMap
    /\ custom_data_pointers = EmptyMap
    /\ free_size = 0
    /\ available_size = 0
    /\ max_ptr = ALLOCATOR_PTR
    /\ mem = EmptyMap
    /\ pages \in {0, 1}
    /\ image = <<>>
    /\ pc = "running"
    /\ live = {}
    /\ last = Event("init", 0, NoSlice, NoSlice, "none", "none")
    /\ snap = NoSnap
    /\ ops = 0
    /\ NoNode

Allocate ==
    /\ pc = "running"
    /\ ops < MaxOps
    /\ Cardinality(live) < MaxLive
    /\ \E n \in ReqSizes : \E r \in {allocate(State, n)} :
         /\ Becomes(r, "running")
         /\ live' = IF r.panic = "none" THEN live \cup {r.blk} ELSE live
         /\ last' = Event("allocate", n, NoSlice, r.blk, Outcome(r), "none")
    /\ snap' = NoSnap
    /\ UNCHANGED node_vars

Deallocate ==
    /\ pc = "running"
    /\ ops < MaxOps
    /\ \E s \in live : \E r \in {deallocate(State, s)} :
         /\ Becomes(r, "running")
         /\ live' = live \ {s}
         /\ last' = Event("deallocate", 0, s, NoSlice, Outcome(r), "none")
    /\ snap' = NoSnap
    /\ UNCHANGED node_vars

Reallocate ==
    /\ pc = "running"
    /\ ops < MaxOps
    /\ \E s \in live, n \in ReqSizes : \E r \in {reallocate(State, s, n)} :
         /\ Becomes(r, "running")
         /\ live' = IF r.panic = "none" THEN (live \ {s}) \cup {r.blk} ELSE live \ {s}
         /\ last' = Event("reallocate", n, s, r.blk, Outcome(r), r.variant)
    /\ snap' = NoSnap
    /\ UNCHANGED node_vars

\* the client fills the slice it was just handed: its first and its last payload word
Write ==
    /\ pc = "running"
    /\ ops < MaxOps
    /\ last.op \in {"allocate", "reallocate"}
    /\ \E s \in live \cap {last.res} :
         \E m \in {WriteWord(WriteWord(mem, s.ptr + PTR_SIZE, DataFirst), s.ptr + s.size, DataLast)} :
            /\ m # mem
            /\ mem' = m
            /\ last' = Event("write", 0, s, NoSlice, "none", "none")
    /\ snap' = NoSnap
    /\ ops' = ops + 1
    /\ UNCHANGED <<alloc_vars, pages, image, pc, live>>
    /\ UNCHANGED node_vars

SetCustomDataPtr ==
    /\ pc = "running"
    /\ ops < MaxOps
    /\ \E i \in Slots, p \in SlotPtrs :
         /\ (IF i \in DOMAIN custom_data_pointers THEN custom_data_pointers[i] # p ELSE TRUE)
         /\ Becomes(set_custom_data_ptr(State, i, p), "running")
         /\ last' = Event("set_custom_data_ptr", i, Some(p), get_custom_data_ptr(State, i),
                           "none", "none")
    /\ snap' = NoSnap
    /\ UNCHANGED live
    /\ UNCHANGED node_vars

\* store() at the end of a run of the program; the allocator as it was is kept in snap
Store ==
    /\ pc = "running"
    /\ ops < MaxOps
    /\ \E r \in {store(State)} :
         /\ Becomes(r, "stored")
         /\ last' = Event("store", 0, NoSlice, r.blk, Outcome(r), "none")
         /\ snap' = [set |-> TRUE, fb |-> free_blocks, cdp |-> custom_data_pointers,
                     fs |-> free_size, av |-> available_size, mp |-> max_ptr,
                     grew |-> r.mp # max_ptr]
    /\ UNCHANGED live
    /\ UNCHANGED node_vars

\* retrieve() at the start of the next run
Retrieve ==
    /\ pc = "stored"
    /\ \E r \in {retrieve(State)} :
         /\ Becomes(r, "running")
         /\ last' = Event("retrieve", 0, last.res, NoSlice, Outcome(r), "none")
    /\ UNCHANGED <<live, snap>>
    /\ UNCHANGED node_vars

Next ==
    \/ Allocate
    \/ Deallocate
    \/ Reallocate
    \/ Write
    \/ SetCustomDataPtr
    \/ Store
    \/ Retrieve

Spec == Init /\ [][Next]_vars

\* ------------------------------------------------------------ certified hash map node
\* The table of a node: len, capacity, and per slot the node hash, the entry
\* hash, the key (its flag byte and its bytes) and the value.  A call works on a
\* table t and answers [table |-> the table after the call, ret |-> what it returns].
EMPTY == 0
OCCUPIED == 255
DEFAULT_CAPACITY == 7

\* A SHA-256 digest is either the 32 zero bytes or what the hasher answers for
\* the chunks it was fed since its last reset; distinct inputs give distinct digests.
EMPTY_SHA256 == <<0>>
finalize_reset(chunks) == <<1, chunks>>
to_hashable_bytes(x) == <<2, x>>

sha256_entry(k, v) == finalize_reset(<<to_hashable_bytes(k), to_hashable_bytes(v)>>)
sha256_node(entry_sha256, lc_sha256, rc_sha256) ==
    finalize_reset(<<entry_sha256, lc_sha256, rc_sha256>>)

\* the ZwoHasher of a key: keys are drawn so that their hashes collide
hash(key) == key

\* new(capacity): the zeroed table with its capacity written
node_new(capacity) ==
    [len |-> 0, capacity |-> capacity,
     node_hashes |-> [x \in 0..(capacity - 1) |-> EMPTY_SHA256],
     entry_hashes |-> [x \in 0..(capacity - 1) |-> EMPTY_SHA256],
     keys |-> [x \in 0..(capacity - 1) |-> [flag |-> EMPTY, key |-> 0]],
     values |-> [x \in 0..(capacity - 1) |-> 0]]

\* variant: the node counts as full only when every slot is taken
is_full_whole(len, capacity) == len = capacity

\* variant: the node takes one entry more before it counts as full
is_full_above(len, capacity) ==
    IF capacity < 12 THEN len = (capacity * 3) \div 4 + 1 ELSE len = (capacity \div 4) * 3 + 1

is_full(len, capacity) ==
    IF capacity < 12 THEN len = (capacity * 3) \div 4 ELSE len = (capacity \div 4) * 3

get_entry_sha256_at(t, idx) ==
    IF t.keys[idx].flag = EMPTY THEN EMPTY_SHA256 ELSE t.entry_hashes[idx]

read_children_node_hashes_of(t, idx) ==
    IF idx >= (t.capacity - 1) \div 2 THEN <<EMPTY_SHA256, EMPTY_SHA256>>
    ELSE <<t.node_hashes[(idx + 1) * 2 - 1], t.node_hashes[(idx + 1) * 2]>>

read_root_hash(t) == t.node_hashes[0]

\* one round of the loop of recalculate_merkle_tree: the parent of i and its new hash
parent_of(i) == IF i % 2 = 1 THEN i \div 2 ELSE (i - 1) \div 2
parent_sha256(t, node_sha256, i) ==
    IF i % 2 = 1
    THEN sha256_node(get_entry_sha256_at(t, i \div 2), node_sha256,
                     IF i + 1 < t.capacity THEN t.node_hashes[i + 1] ELSE EMPTY_SHA256)
    ELSE sha256_node(get_entry_sha256_at(t, (i - 1) \div 2), t.node_hashes[i - 1], node_sha256)

RECURSIVE recalculate_merkle_tree(_, _, _)
recalculate_merkle_tree(t, node_sha256, i) ==
    IF i = 0 THEN [table |-> t, ret |-> node_sha256]
    ELSE recalculate_merkle_tree(
             [t EXCEPT !.node_hashes[parent_of(i)] = parent_sha256(t, node_sha256, i)],
             parent_sha256(t, node_sha256, i), parent_of(i))

\* the node hash of slot i for the entry hash given, from the children as stored
own_sha256(t, entry_sha256, i) ==
    sha256_node(entry_sha256, read_children_node_hashes_of(t, i)[1],
                read_children_node_hashes_of(t, i)[2])

\* variant: the entry hash of the slot is not written
insert_rehash_stale(t, entry_sha256, i) ==
    recalculate_merkle_tree([t EXCEPT !.node_hashes[i] = own_sha256(t, entry_sha256, i)],
                            own_sha256(t, entry_sha256, i), i)

\* insert, lines 136-147 and 170-181: node hash and entry hash of slot i are
\* written and the path to the root is recalculated
insert_rehash(t, entry_sha256, i) ==
    IF i > 0
    THEN recalculate_merkle_tree(
             [t EXCEPT !.node_hashes[i] = own_sha256(t, entry_sha256, i),
                       !.entry_hashes[i] = entry_sha256],
             own_sha256(t, entry_sha256, i), i)
    ELSE [table |-> [t EXCEPT !.node_hashes[i] = own_sha256(t, entry_sha256, i),
                              !.entry_hashes[i] = entry_sha256],
          ret |-> own_sha256(t, entry_sha256, i)]

\* Ok((prev_value, is_new, i, root hash)) or Err((key, value))
InsertOk(r, prev, is_new, i) ==
    [table |-> r.table,
     ret |-> [variant |-> "Ok", prev |-> prev, is_new |-> is_new, idx |-> i, root |-> r.ret]]

\* variant: the value of a key that is present is left as it is
insert_occupied_keep(t, key, value, i) ==
    InsertOk([table |-> t, ret |-> t.node_hashes[0]], Some(t.values[i]), FALSE, i)

\* variant: a full node rejects the update of a key it holds
insert_occupied_full(t, key, value, i) ==
    IF is_full(t.len, t.capacity)
    THEN [table |-> t, ret |-> [variant |-> "Err", key |-> key, value |-> value]]
    ELSE InsertOk(insert_rehash([t EXCEPT !.values[i] = value], sha256_entry(key, value), i),
                  Some(t.values[i]), FALSE, i)

insert_occupied(t, key, value, i) ==
    InsertOk(insert_rehash([t EXCEPT !.values[i] = value], sha256_entry(key, value), i),
             Some(t.values[i]), FALSE, i)

\* variant: the slot is written before the load factor is looked at
insert_empty_written(t, key, value, i) ==
    IF is_full(t.len, t.capacity)
    THEN [table |-> [t EXCEPT !.keys[i] = [flag |-> OCCUPIED, key |-> key], !.values[i] = value],
          ret |-> [variant |-> "Err", key |-> key, value |-> value]]
    ELSE InsertOk(insert_rehash([t EXCEPT !.len = @ + 1,
                                          !.keys[i] = [flag |-> OCCUPIED, key |-> key],
                                          !.values[i] = value],
                                sha256_entry(key, value), i),
                  None, TRUE, i)

insert_empty(t, key, value, i) ==
    IF is_full(t.len, t.capacity)
    THEN [table |-> t, ret |-> [variant |-> "Err", key |-> key, value |-> value]]
    ELSE InsertOk(insert_rehash([t EXCEPT !.len = @ + 1,
                                          !.keys[i] = [flag |-> OCCUPIED, key |-> key],
                                          !.values[i] = value],
                                sha256_entry(key, value), i),
                  None, TRUE, i)

RECURSIVE insert_probe(_, _, _, _)
insert_probe(t, key, value, i) ==
    IF t.keys[i].flag = OCCUPIED
    THEN IF t.keys[i].key = key THEN insert_occupied(t, key, value, i)
         ELSE insert_probe(t, key, value, (i + 1) % t.capacity)
    ELSE insert_empty(t, key, value, i)

insert(t, key, value) == insert_probe(t, key, value, hash(key) % t.capacity)

\* Option<(usize, K)>
NotFound == [some |-> FALSE, idx |-> 0, key |-> 0]
FoundAt(i, key) == [some |-> TRUE, idx |-> i, key |-> key]

RECURSIVE find_probe(_, _, _)
find_probe(t, key, i) ==
    IF t.keys[i].flag = OCCUPIED
    THEN IF t.keys[i].key = key THEN FoundAt(i, t.keys[i].key)
         ELSE find_probe(t, key, (i + 1) % t.capacity)
    ELSE NotFound

find_inner_idx(t, key) == find_probe(t, key, hash(key) % t.capacity)

\* variant: no entry is ever moved back
NeverShift(t, i, j) == FALSE

\* variant: the test forgets that the probe wraps around the end of the table
MayShiftNoWrap(t, i, j) == hash(t.keys[j].key) % t.capacity <= i

\* remove_by_idx, lines 240-263: the probe j runs from the slot after i until it
\* comes back to i or meets an empty slot; an entry that may move back is copied
\* into i (key, value and entry hash), i joins the shifted slots and j becomes i
MayShift(t, i, j) ==
    ((j < i) # (hash(t.keys[j].key) % t.capacity <= i)) # (hash(t.keys[j].key) % t.capacity > j)

RECURSIVE remove_shift(_, _, _, _)
remove_shift(t, i, j, shifted) ==
    IF j = i THEN [table |-> t, i |-> i, shifted |-> shifted]
    ELSE IF t.keys[j].flag = EMPTY THEN [table |-> t, i |-> i, shifted |-> shifted]
    ELSE IF MayShift(t, i, j)
    THEN remove_shift([t EXCEPT !.keys[i] = [flag |-> OCCUPIED, key |-> t.keys[j].key],
                                !.values[i] = t.values[j],
                                !.entry_hashes[i] = t.entry_hashes[j]],
                      j, (j + 1) % t.capacity, Append(shifted, i))
    ELSE remove_shift(t, i, (j + 1) % t.capacity, shifted)

\* variant: the slot left over is marked empty and no hash is written for it
remove_clear_unhashed(t, i) ==
    [table |-> [t EXCEPT !.keys[i].flag = EMPTY], ret |-> t.node_hashes[0]]

\* lines 265-275: the slot left over is marked empty and its path is recalculated
remove_clear(t, i) ==
    IF i > 0
    THEN recalculate_merkle_tree(
             [t EXCEPT !.keys[i].flag = EMPTY,
                       !.node_hashes[i] = own_sha256(t, EMPTY_SHA256, i)],
             own_sha256(t, EMPTY_SHA256, i), i)
    ELSE [table |-> [t EXCEPT !.keys[i].flag = EMPTY,
                              !.node_hashes[i] = own_sha256(t, EMPTY_SHA256, i)],
          ret |-> own_sha256(t, EMPTY_SHA256, i)]

\* variant: the slots that received a shifted entry are not rehashed
remove_rehash_none(r, shifted) == r

\* lines 279-287: the shifted slots are rehashed, last shifted first
RECURSIVE remove_rehash(_, _)
remove_rehash(r, shifted) ==
    IF shifted = <<>> THEN r
    ELSE remove_rehash(
             recalculate_merkle_tree(
                 [r.table EXCEPT !.node_hashes[shifted[Len(shifted)]] =
                     own_sha256(r.table, get_entry_sha256_at(r.table, shifted[Len(shifted)]),
                                shifted[Len(shifted)])],
                 own_sha256(r.table, get_entry_sha256_at(r.table, shifted[Len(shifted)]),
                            shifted[Len(shifted)]),
                 shifted[Len(shifted)]),
             SubSeq(shifted, 1, Len(shifted) - 1))

\* variant: the root returned is the one computed for the cleared slot
remove_finish_early(loop) ==
    [table |-> remove_rehash(remove_clear(loop.table, loop.i), loop.shifted).table,
     ret |-> remove_clear(loop.table, loop.i).ret]

remove_finish(loop) == remove_rehash(remove_clear(loop.table, loop.i), loop.shifted)

\* (prev_value, root hash)
RemoveRet(r, prev_value) ==
    [table |-> r.table, ret |-> [some |-> TRUE, value |-> prev_value, root |-> r.ret]]

\* variant: the length is left as it was
remove_by_idx_len_kept(t, i) ==
    RemoveRet(remove_finish(remove_shift(t, i, (i + 1) % t.capacity, <<>>)), t.values[i])

remove_by_idx(t, i) ==
    RemoveRet(remove_finish(remove_shift([t EXCEPT !.len = @ - 1], i, (i + 1) % t.capacity, <<>>)),
              t.values[i])

NoneRemoved == [some |-> FALSE, value |-> 0, root |-> EMPTY_SHA256]

remove(t, key) ==
    IF find_inner_idx(t, key).some THEN remove_by_idx(t, find_inner_idx(t, key).idx)
    ELSE [table |-> t, ret |-> NoneRemoved]

\* ------------------------------------------------------------ Merkle witness
\* MerkleKV, MerkleChild and MerkleNode
Plain(k, v) == [kind |-> "Plain", k |-> k, v |-> v]
PrunedKV(digest) == [kind |-> "Pruned", digest |-> digest]
Pruned(digest) == [kind |-> "Pruned", digest |-> digest]
Hole == [kind |-> "Hole"]
MerkleNode(key_value, left_child, right_child) ==
    [key_value |-> key_value, left_child |-> left_child, right_child |-> right_child]

\* witness_key, lines 345-355: the node of the key itself
witness_leaf(t, idx) ==
    MerkleNode(Plain(t.keys[idx].key, t.values[idx]),
               Pruned(read_children_node_hashes_of(t, idx)[1]),
               Pruned(read_children_node_hashes_of(t, idx)[2]))

\* witness_key, lines 361-395: one node per ancestor, up to the root
RECURSIVE witness_branch(_, _)
witness_branch(t, idx) ==
    IF idx = 0 THEN <<>>
    ELSE IF idx % 2 = 1
    THEN <<MerkleNode(PrunedKV(get_entry_sha256_at(t, idx \div 2)), Hole,
                      Pruned(IF idx + 1 < t.capacity THEN t.node_hashes[idx + 1]
                             ELSE EMPTY_SHA256))>>
         \o witness_branch(t, idx \div 2)
    ELSE <<MerkleNode(PrunedKV(get_entry_sha256_at(t, (idx - 1) \div 2)),
                      Pruned(t.node_hashes[idx - 1]), Hole)>>
         \o witness_branch(t, (idx - 1) \div 2)

\* Some(tree) is the sequence of nodes, None the empty sequence
witness_key(t, key) ==
    IF find_inner_idx(t, key).some
    THEN <<witness_leaf(t, find_inner_idx(t, key).idx)>>
         \o witness_branch(t, find_inner_idx(t, key).idx)
    ELSE <<>>

MerkleWitness(tree, additional_hashes) == [tree |-> tree, additional_hashes |-> additional_hashes]

calculate_entry_sha256(key_value) == sha256_entry(key_value.k, key_value.v)

\* the chunk a child contributes: its digest, or the running node hash for the hole
child_chunk(child, node_hash) == IF child.kind = "Hole" THEN node_hash ELSE child.digest

\* reconstruct, lines 125-142: the running node hash after the rest of the branch
RECURSIVE reconstruct_branch(_, _)
reconstruct_branch(branch, node_hash) ==
    IF branch = <<>> THEN node_hash
    ELSE reconstruct_branch(
             Tail(branch),
             finalize_reset(<<Head(branch).key_value.digest,
                              child_chunk(Head(branch).left_child, node_hash),
                              child_chunk(Head(branch).right_child, node_hash)>>))

\* reconstruct, lines 144-149: the additional hashes are fed to the hasher, None
\* standing for the running node hash
additional_chunks(additional_hashes, node_hash) ==
    [x \in 1..Len(additional_hashes) |->
        IF additional_hashes[x].some THEN additional_hashes[x].digest ELSE node_hash]

reconstruct_leaf(leaf) ==
    finalize_reset(<<calculate_entry_sha256(leaf.key_value), leaf.left_child.digest,
                     leaf.right_child.digest>>)

\* (leaf.key_value, hasher.finalize_reset()): the digest of what the hasher was
\* fed after its last reset
reconstruct(witness) ==
    <<Head(witness.tree).key_value,
      finalize_reset(additional_chunks(
          witness.additional_hashes,
          reconstruct_branch(Tail(witness.tree), reconstruct_leaf(Head(witness.tree)))))>>

\* ------------------------------------------------------------ the node's state machine
\* capacities a node is created with (1 is the smallest, and a node of capacity 1
\* is full from the start), keys and values its client draws from
\* (with hash(key) = key the keys 27 and 55 start at the last slot of capacities 4
\* and 7, 0 and 28 at slot 0 and 1 at slot 1, so probes collide, wrap around
\* and run into entries that sit at their own slot), and the number of calls
\* in one behaviour
Capacities == {1, 4, DEFAULT_CAPACITY}
Keys == {0, 1, 27, 28, 55}
Values == {10, 20}
MaxCalls == 4

Call(op, key, value, ret) == [op |-> op, key |-> key, value |-> value, ret |-> ret]

\* the allocator is not exercised while the node runs
AllocatorIdle ==
    /\ free_blocks = EmptyMap
    /\ custom_data_pointers = EmptyMap
    /\ free_size = 0
    /\ available_size = 0
    /\ max_ptr = ALLOCATOR_PTR
    /\ mem = EmptyMap
    /\ pages = 0
    /\ image = <<>>
    /\ pc = "running"
    /\ live = {}
    /\ last = Event("init", 0, NoSlice, NoSlice, "none", "none")
    /\ snap = NoSnap
    /\ ops = 0

alloc_env == <<free_blocks, custom_data_pointers, free_size, available_size, max_ptr,
               mem, pages, image, pc, live, last, snap, ops>>

NodeInit ==
    /\ AllocatorIdle
    /\ table \in {node_new(c) : c \in Capacities}
    /\ called = Call("new", 0, 0, None)
    /\ history = <<>>

Insert ==
    /\ Len(history) < MaxCalls
    /\ \E key \in Keys, value \in Values : \E r \in {insert(table, key, value)} :
         /\ table' = r.table
         /\ called' = Call("insert", key, value, r.ret)
         /\ history' = Append(history, Call("insert", key, value, r.ret.variant))
    /\ UNCHANGED alloc_env

Remove ==
    /\ Len(history) < MaxCalls
    /\ \E key \in Keys : \E r \in {remove(table, key)} :
         /\ table' = r.table
         /\ called' = Call("remove", key, 0, r.ret)
         /\ history' = Append(history, Call("remove", key, 0, r.ret.some))
    /\ UNCHANGED alloc_env

NodeNext ==
    \/ Insert
    \/ Remove

NodeSpec == NodeInit /\ [][NodeNext]_vars

\* ------------------------------------------------------------ properties
\* the blocks in the free lists, and how many entries the lists hold
FreeSet == UNION {{free_blocks[k][i] : i \in 1..Len(free_blocks[k])} : k \in DOMAIN free_blocks}

RECURSIVE CountEntries(_)
CountEntries(keys) ==
    IF keys = {} THEN 0
    ELSE Len(free_blocks[CHOOSE k \in keys : TRUE]) + CountEntries(keys \ {CHOOSE k \in keys : TRUE})
FreeCount == CountEntries(DOMAIN free_blocks)

\* the slices handed out and not given back: the client's, and the bootstrap
\* slice between store() and retrieve()
Held == live \cup (IF pc = "stored" THEN {last.res} ELSE {})

RECURSIVE SumTotal(_)
SumTotal(S) ==
    IF S = {} THEN 0
    ELSE get_total_size_bytes(CHOOSE b \in S : TRUE) + SumTotal(S \ {CHOOSE b \in S : TRUE})

Overlap(a, b) ==
    /\ a.ptr < b.ptr + get_total_size_bytes(b)
    /\ b.ptr < a.ptr + get_total_size_bytes(a)

Inside(a, b) ==
    /\ b.ptr <= a.ptr
    /\ a.ptr + get_total_size_bytes(a) <= b.ptr + get_total_size_bytes(b)

Min(a, b) == IF a < b THEN a ELSE b

\* C1: the slice returned by allocate(n) and by reallocate(s, n) has a payload of
\* at least pad(n) bytes, also when the call has to grow stable memory.
C1_PayloadAtLeastPadded ==
    (last.op \in {"allocate", "reallocate"} /\ last.kind \notin Panics)
        => last.res.size >= pad_size(last.req)

\* C2: after every allocate, reallocate and deallocate, get_allocated_size() is
\* the sum of the total sizes (payload + 16) of the live slices.
C2_AllocatedIsSumOfLive ==
    pc = "running" => get_allocated_size(State) = SumTotal(live)

C2_Witness ==
    /\ pc = "running"
    /\ last.op = "reallocate"
    /\ last.kind = "moved"
    /\ Cardinality(live) = 2

\* C3: after every allocate, reallocate or deallocate, available_size is
\* size_pages * PAGE_SIZE - MIN_PTR, pre-grown host memory or not.
C3_AvailableIsGrownMemory ==
    (pc # "aborted" /\ max_ptr # ALLOCATOR_PTR)
        => available_size = pages * PAGE_SIZE_BYTES - MIN_PTR

\* the first allocation on a pre-grown page that has to grow a second one
C3_Witness ==
    /\ ops = 1
    /\ last.op = "allocate"
    /\ last.res = [ptr |-> MIN_PTR, size |-> 65536]
    /\ pages = 2

\* C4: walking the memory from MIN_PTR to max_ptr by sentinel, no two
\* consecutive blocks are both free.
RECURSIVE NoAdjacentFree(_, _)
NoAdjacentFree(addr, prev_free) ==
    IF addr >= max_ptr THEN TRUE
    ELSE /\ ReadWord(mem, addr)[1] >= PTR_SIZE * 2
         /\ ~(prev_free /\ ~ReadWord(mem, addr)[2])
         /\ NoAdjacentFree(addr + ReadWord(mem, addr)[1] + PTR_SIZE * 2, ~ReadWord(mem, addr)[2])

C4_NoAdjacentFreeBlocks ==
    pc # "aborted" => NoAdjacentFree(MIN_PTR, FALSE)

\* the slice just returned was made by growing memory right after a free tail
C4_Witness ==
    /\ last.op = "allocate"
    /\ last.res.ptr = (pages - 1) * PAGE_SIZE_BYTES
    /\ \E f \in FreeSet : f.ptr + get_total_size_bytes(f) = last.res.ptr

\* C5: the live slices and the free-list blocks exactly tile [MIN_PTR, max_ptr):
\* no two blocks overlap, no block is live and free at once, nothing is left out.
C5_BlocksTileMemory ==
    pc # "aborted" =>
        /\ \A a \in Held, b \in FreeSet : ~Overlap(a, b)
        /\ \A a \in Held, b \in Held : a # b => ~Overlap(a, b)
        /\ \A a \in FreeSet, b \in FreeSet : a # b => ~Overlap(a, b)
        /\ FreeCount = Cardinality(FreeSet)
        /\ \A b \in Held \cup FreeSet :
              b.ptr >= MIN_PTR /\ b.ptr + get_total_size_bytes(b) <= max_ptr
        /\ SumTotal(Held) + SumTotal(FreeSet)
              = (IF max_ptr = ALLOCATOR_PTR THEN 0 ELSE max_ptr - MIN_PTR)

C5_Witness ==
    /\ pc = "running"
    /\ Cardinality(live) = 2
    /\ FreeCount >= 2
    /\ last.op = "reallocate"
    /\ last.kind = "inplace"

\* C6: once every live slice has been deallocated, get_allocated_size() = 0 and
\* the free lists hold exactly one block, which spans [MIN_PTR, max_ptr).
C6_AllFreedIsOneBlock ==
    (pc = "running" /\ live = {} /\ max_ptr # ALLOCATOR_PTR) =>
        /\ get_allocated_size(State) = 0
        /\ FreeCount = 1
        /\ FreeSet = {new_total_size(MIN_PTR, max_ptr - MIN_PTR)}

C6_Witness ==
    /\ pc = "running"
    /\ live = {}
    /\ last.op = "deallocate"
    /\ pages = 2
    /\ ops = 4

C8_BootstrapSliceFreed ==
    last.op = "retrieve" =>
        /\ pc = "running"
        /\ get_allocated_size(State) = snap.av - snap.fs
        /\ available_size = pages * PAGE_SIZE_BYTES - MIN_PTR
        /\ SumTotal(FreeSet) = free_size
        /\ FreeCount = Cardinality(FreeSet)
        /\ \E f \in FreeSet : Inside(last.arg, f)

\* C9: after s' = reallocate(s, n), the first min(payload(s), payload(s')) bytes
\* of s' are those s held before the call, on all three paths.
PayloadWord(m, s, o) == ReadWord(m, s.ptr + PTR_SIZE + o)
WrittenOffsets(m, s) ==
    {a - (s.ptr + PTR_SIZE) :
        a \in {x \in DOMAIN m : x >= s.ptr + PTR_SIZE /\ x < s.ptr + PTR_SIZE + s.size}}

C9_Step ==
    (last'.op = "reallocate" /\ last'.kind \notin Panics) =>
        \A o \in WrittenOffsets(mem, last'.arg) \cup WrittenOffsets(mem', last'.res) :
            o < Min(last'.arg.size, last'.res.size)
                => PayloadWord(mem', last'.res, o) = PayloadWord(mem, last'.arg, o)

C9_ReallocatePreservesData == [][C9_Step]_vars

\* a moved slice whose new block overlaps the old one, with the client's data in it
C9_Witness ==
    /\ last.op = "reallocate"
    /\ last.kind = "moved"
    /\ Overlap(last.arg, last.res)
    /\ PayloadWord(mem, last.res, 0) = DataFirst
    /\ PayloadWord(mem, last.res, last.arg.size - PTR_SIZE) = DataLast

\* C10: reallocate(s, n) with pad(n) <= payload(s) returns s itself and changes
\* nothing: free lists, counters, max_ptr and the sentinels stay, the tail is kept.
C10_Step ==
    (last'.op = "reallocate" /\ pad_size(last'.req) <= last'.arg.size) =>
        /\ last'.res = last'.arg
        /\ pc' = "running"
        /\ UNCHANGED <<free_blocks, custom_data_pointers, free_size, available_size,
                       max_ptr, mem, pages, live>>

C10_ShrinkChangesNothing == [][C10_Step]_vars

\* a shrink that leaves a tail big enough to be a block of its own
C10_Witness ==
    /\ last.op = "reallocate"
    /\ last.res = last.arg
    /\ can_split(last.arg.size, pad_size(last.req))

\* C11: reallocate(s, n) with pad(n) > payload(s), when the block right after s
\* is free and payload(s) + payload(next) + 16 >= pad(n), returns a slice with
\* the pointer of s; the neighbor leaves the free lists and is absorbed, and a
\* remainder goes back to the free lists exactly when the merged payload is
\* >= pad(n) + 32.
NextOf(s) == next_neighbor_is_free(mem, s, max_ptr)
MergedPayload(s) == s.size + NextOf(s).size + PTR_SIZE * 2
Remainder(s, n) ==
    FreeBlock(s.ptr + pad_size(n) + PTR_SIZE * 2, MergedPayload(s) - pad_size(n) - PTR_SIZE * 2)

Extendable(s, n) ==
    /\ pad_size(n) > s.size
    /\ NextOf(s) # NoBlock
    /\ MergedPayload(s) >= pad_size(n)

C11_Step ==
    (last'.op = "reallocate" /\ Extendable(last'.arg, last'.req)) =>
        /\ pc' = "running"
        /\ last'.kind = "inplace"
        /\ last'.res.ptr = last'.arg.ptr
        /\ NextOf(last'.arg) \notin FreeSet'
        /\ FreeCount' = Cardinality(FreeSet')
        /\ IF MergedPayload(last'.arg) >= pad_size(last'.req) + 32
           THEN /\ last'.res.size = pad_size(last'.req)
                /\ FreeSet' = (FreeSet \ {NextOf(last'.arg)})
                                 \cup {Remainder(last'.arg, last'.req)}
           ELSE /\ last'.res.size = MergedPayload(last'.arg)
                /\ FreeSet' = FreeSet \ {NextOf(last'.arg)}

C11_ExtendsInPlace == [][C11_Step]_vars

\* an extension in place that split a remainder off
C11_Witness ==
    /\ last.op = "reallocate"
    /\ last.kind = "inplace"
    /\ last.res.ptr = last.arg.ptr
    /\ last.res.size = pad_size(last.req)
    /\ \E f \in FreeSet : f.ptr = last.res.ptr + get_total_size_bytes(last.res)

\* C12: the two-variant result of reallocate tells the two outcomes apart: a
\* call that kept the old slice (unchanged or extended in place) and a call that
\* moved it to a new slice never return the same variant.
Returned(e) == e.op = "reallocate" /\ e.kind \in {"same", "inplace", "moved"}
Kept(e) == e.kind \in {"same", "inplace"}

C12_Step ==
    (Returned(last) /\ Returned(last') /\ Kept(last) # Kept(last'))
        => last.variant # last'.variant

C12_VariantTellsKeptFromMoved == [][C12_Step]_vars

\* C13: when the host cannot grow stable memory, the call that needed the
\* growth (allocate, the move path of reallocate, store) aborts before any
\* mutation began: the block sentinels in stable memory, and the layout they
\* describe, are the same as before the call.
RECURSIVE Layout(_, _, _)
Layout(m, addr, end) ==
    IF addr >= end THEN {}
    ELSE {[ptr |-> addr, size |-> ReadWord(m, addr)[1], allocated |-> ReadWord(m, addr)[2],
           footer |-> ReadWord(m, addr + PTR_SIZE + ReadWord(m, addr)[1])]}
         \cup Layout(m, addr + ReadWord(m, addr)[1] + PTR_SIZE * 2, end)

C13_Step ==
    (last'.op \in {"allocate", "reallocate", "store"} /\ last'.kind = "OutOfMemory")
        => Layout(mem', MIN_PTR, max_ptr) = Layout(mem, MIN_PTR, max_ptr)

C13_OutOfMemoryBeforeMutation == [][C13_Step]_vars

\* C14: get_custom_data_ptr(i) returns the pointer of the most recent
\* set_custom_data_ptr(i, p) and None if the slot was never set;
\* set_custom_data_ptr returns the slot's previous value; allocate, reallocate
\* and deallocate never change a slot, and the slots survive store() followed by
\* retrieve().
C14_Step ==
    /\ last'.op = "set_custom_data_ptr" =>
          /\ get_custom_data_ptr(State', last'.req) = last'.arg
          /\ last'.res = get_custom_data_ptr(State, last'.req)
          /\ \A i \in Slots \ {last'.req} :
                get_custom_data_ptr(State', i) = get_custom_data_ptr(State, i)
    /\ (last'.op # "set_custom_data_ptr" /\ pc' # "aborted") =>
          \A i \in Slots : get_custom_data_ptr(State', i) = get_custom_data_ptr(State, i)

C14_SlotsKeepLastPointer ==
    /\ \A i \in Slots : get_custom_data_ptr(State, i) = None
    /\ [][C14_Step]_vars

\* one slot set and the other never set, read after a round trip through store()
\* and retrieve() of an allocator with live slices
C14_Witness ==
    /\ last.op = "retrieve"
    /\ pc = "running"
    /\ get_custom_data_ptr(State, 0) = Some(24)
    /\ get_custom_data_ptr(State, 1) = None
    /\ live # {}

\* C15: after any sequence of insert calls none of which returned Full, find of
\* every inserted key returns the slot holding that key, with its last-written
\* value, and find of a key never inserted returns None.
InsertCalls(h) == {x \in 1..Len(h) : h[x].op = "insert"}
OnlyInserts(h) == \A x \in 1..Len(h) : h[x].op = "insert" /\ h[x].ret = "Ok"
InsertedKeys(h) == {h[x].key : x \in InsertCalls(h)}
LastWritten(h, key) ==
    h[CHOOSE x \in InsertCalls(h) :
          /\ h[x].key = key
          /\ \A y \in InsertCalls(h) : h[y].key = key => y <= x].value

FindsWith(t, key, value) ==
    /\ find_inner_idx(t, key).some
    /\ find_inner_idx(t, key).key = key
    /\ t.keys[find_inner_idx(t, key).idx] = [flag |-> OCCUPIED, key |-> key]
    /\ t.values[find_inner_idx(t, key).idx] = value

C15_InsertThenFind ==
    (table # NoTable /\ OnlyInserts(history)) =>
        \A key \in Keys :
            IF key \in InsertedKeys(history)
            THEN FindsWith(table, key, LastWritten(history, key))
            ELSE find_inner_idx(table, key) = NotFound

\* three keys inserted, one of them away from its home slot, one value rewritten
C15_Witness ==
    /\ table # NoTable
    /\ OnlyInserts(history)
    /\ Len(history) = 4
    /\ table.len = 3
    /\ called.ret.is_new = FALSE
    /\ called.ret.prev # Some(called.value)
    /\ \E key \in Keys :
          /\ find_inner_idx(table, key).some
          /\ find_inner_idx(table, key).idx # hash(key) % table.capacity

\* C16: remove(K) of a present key returns K's stored value and decrements len
\* by exactly 1; afterwards find(K) = None and every other live key is still
\* found with its prior value, whatever back-shifts the removal performed.
\* remove of an absent key returns None and changes nothing.
LiveKeys(t) == {t.keys[x].key : x \in {y \in 0..(t.capacity - 1) : t.keys[y].flag = OCCUPIED}}
ValueOf(t, key) == t.values[find_inner_idx(t, key).idx]

C16_Step ==
    called'.op = "remove" =>
        IF find_inner_idx(table, called'.key).some
        THEN /\ called'.ret.some
             /\ called'.ret.value = ValueOf(table, called'.key)
             /\ table'.len = table.len - 1
             /\ find_inner_idx(table', called'.key) = NotFound
             /\ LiveKeys(table') = LiveKeys(table) \ {called'.key}
             /\ \A key \in LiveKeys(table) \ {called'.key} :
                    FindsWith(table', key, ValueOf(table, key))
        ELSE /\ called'.ret = NoneRemoved
             /\ table' = table

C16_RemovePreservesSearch == [][C16_Step]_vars

\* a removal at the last slot that moved one entry back around the end of the
\* table and a second one behind it
C16_Witness ==
    /\ called.op = "remove"
    /\ called.key = 27
    /\ called.ret.some
    /\ table.len = 2
    /\ table.keys[table.capacity - 1] = [flag |-> OCCUPIED, key |-> 55]
    /\ table.keys[0] = [flag |-> OCCUPIED, key |-> 0]
    /\ table.keys[1].flag = EMPTY

\* C17: for any key K present with value V, MerkleWitness::reconstruct applied
\* to the witness built from witness_key(K), with no additional hashes, returns
\* (Plain(K, V), d) where d is the node's root hash node_hashes[0].
C17_WitnessReconstructsRoot ==
    table # NoTable =>
        \A key \in LiveKeys(table) :
            reconstruct(MerkleWitness(witness_key(table, key), <<>>))
                = <<Plain(key, ValueOf(table, key)), table.node_hashes[0]>>

\* C18: in every state reachable from new(C) by insert and remove, the fresh
\* all-zero node included, every slot i satisfies
\* node_hashes[i] = H(e_i || node_hashes[2i+1] || node_hashes[2i+2]), where e_i is
\* entry_hashes[i] if slot i is occupied and 32 zero bytes otherwise, and a
\* missing child counts as 32 zero bytes.
ChildHash(t, c) == IF c < t.capacity THEN t.node_hashes[c] ELSE EMPTY_SHA256
MerkleAt(t, i) ==
    t.node_hashes[i] = sha256_node(get_entry_sha256_at(t, i), ChildHash(t, 2 * i + 1),
                                   ChildHash(t, 2 * i + 2))

C18_NodeHashesAreMerkle ==
    table # NoTable => \A i \in 0..(table.capacity - 1) : MerkleAt(table, i)

\* C19: after inserting a set of entries into a fresh node, removing one key and
\* inserting it again with the same value, the root hash is the root hash of a
\* fresh node of the same capacity into which the same entries were inserted.
RECURSIVE Rebuilt(_, _)
Rebuilt(t, h) ==
    IF h = <<>> THEN t
    ELSE Rebuilt(insert(t, Head(h).key, Head(h).value).table, Tail(h))

Entries(h) == SubSeq(h, 1, Len(h) - 2)

RemovedAndInsertedAgain(h) ==
    /\ Len(h) >= 3
    /\ OnlyInserts(Entries(h))
    /\ h[Len(h) - 1].op = "remove"
    /\ h[Len(h) - 1].ret = TRUE
    /\ h[Len(h)].op = "insert"
    /\ h[Len(h)].ret = "Ok"
    /\ h[Len(h)].key = h[Len(h) - 1].key
    /\ h[Len(h)].value = LastWritten(Entries(h), h[Len(h)].key)

C19_RootIsThatOfARebuild ==
    (table # NoTable /\ RemovedAndInsertedAgain(history)) =>
        table.node_hashes[0] = Rebuilt(node_new(table.capacity), Entries(history)).node_hashes[0]

\* C20: every occupied slot i satisfies entry_hashes[i] = H(bytes(K_i) || bytes(V_i))
\* for the key and value stored in slot i, also after a value overwrite and
\* after entries were back-shifted into another slot by remove.
C20_EntryHashesMatch ==
    table # NoTable =>
        \A i \in 0..(table.capacity - 1) :
            table.keys[i].flag = OCCUPIED
                => table.entry_hashes[i] = sha256_entry(table.keys[i].key, table.values[i])

\* an entry whose value was overwritten and that a removal then moved back
\* around the end of the table
C20_Witness ==
    /\ Len(history) = 4
    /\ history[2] = Call("insert", 55, 10, "Ok")
    /\ history[3] = Call("insert", 55, 20, "Ok")
    /\ history[4] = Call("remove", 27, 0, TRUE)
    /\ table.keys[table.capacity - 1] = [flag |-> OCCUPIED, key |-> 55]
    /\ table.values[table.capacity - 1] = 20

\* C21: in every state of a capacity-C node reachable by insert and remove,
\* 0 <= len <= loadCap(C), where loadCap(C) = C*3/4 if C < 12 and (C/4)*3 otherwise.
loadCap(C) == IF C < 12 THEN (C * 3) \div 4 ELSE (C \div 4) * 3

C21_LenWithinLoadCap ==
    table # NoTable => (0 <= table.len /\ table.len <= loadCap(table.capacity))

\* the insert of a new key that brought the node to its load-factor cap
C21_Witness ==
    /\ table # NoTable
    /\ table.len = loadCap(table.capacity)
    /\ called.op = "insert"
    /\ called.ret.variant = "Ok"
    /\ called.ret.is_new

\* C22: insert of a key not present when len = loadCap(C) returns the error
\* carrying the same (K, V) and leaves the node unchanged: len, every flag, key,
\* value, entry hash and node hash are as before the call.
C22_Step ==
    (/\ called'.op = "insert"
     /\ ~find_inner_idx(table, called'.key).some
     /\ table.len = loadCap(table.capacity))
        => /\ called'.ret = [variant |-> "Err", key |-> called'.key, value |-> called'.value]
           /\ table' = table

C22_FullInsertChangesNothing == [][C22_Step]_vars

\* a node at its cap whose last call was a rejected insert of a key it does not hold
C22_Witness ==
    /\ table # NoTable
    /\ called.op = "insert"
    /\ called.ret.variant = "Err"
    /\ called.key \notin LiveKeys(table)
    /\ table.len = loadCap(table.capacity)

\* C23: insert of a key already present overwrites its value in place and
\* returns (Some(previous value), false, its slot, root) with len unchanged, also
\* when the node is full; insert of an absent key into a node with len < loadCap
\* returns (None, true, the slot written, root) and increases len by exactly 1.
C23_Step ==
    called'.op = "insert" =>
        IF find_inner_idx(table, called'.key).some
        THEN /\ called'.ret = [variant |-> "Ok",
                               prev |-> Some(ValueOf(table, called'.key)),
                               is_new |-> FALSE,
                               idx |-> find_inner_idx(table, called'.key).idx,
                               root |-> table'.node_hashes[0]]
             /\ table'.len = table.len
             /\ table'.keys = table.keys
             /\ table'.values = [table.values EXCEPT ![called'.ret.idx] = called'.value]
        ELSE table.len < loadCap(table.capacity) =>
             /\ called'.ret = [variant |-> "Ok", prev |-> None, is_new |-> TRUE,
                               idx |-> find_inner_idx(table', called'.key).idx,
                               root |-> table'.node_hashes[0]]
             /\ table'.len = table.len + 1
             /\ table.keys[called'.ret.idx].flag = EMPTY
             /\ table'.keys = [table.keys EXCEPT ![called'.ret.idx] =
                                  [flag |-> OCCUPIED, key |-> called'.key]]
             /\ table'.values = [table.values EXCEPT ![called'.ret.idx] = called'.value]

C23_InsertUpdatesOrAdds == [][C23_Step]_vars

\* a full node whose last call rewrote the value of a key it holds
C23_Witness ==
    /\ table # NoTable
    /\ table.len = loadCap(table.capacity)
    /\ called.op = "insert"
    /\ called.ret.variant = "Ok"
    /\ ~called.ret.is_new
    /\ called.ret.prev # Some(called.value)

\* C24: for every capacity (odd or even) and every slot i, the node hash of
\* slot i is computed from node_hashes[2i+1] and node_hashes[2i+2] whenever those
\* indices are below the capacity and from the zero digest for an absent child,
\* and the direct computation at i (insert, remove, witness leaf) uses the same
\* parent/child relation as the upward propagation from a child to its parent.
ChildAt(t, c) == IF c < t.capacity THEN t.node_hashes[c] ELSE EMPTY_SHA256
ChildrenByIndex(t, i) == <<ChildAt(t, 2 * i + 1), ChildAt(t, 2 * i + 2)>>

C24_SameChildrenBothWays ==
    table # NoTable =>
        /\ \A i \in 0..(table.capacity - 1) :
               read_children_node_hashes_of(table, i) = ChildrenByIndex(table, i)
        /\ \A i \in 1..(table.capacity - 1) :
               parent_sha256(table, table.node_hashes[i], i)
                   = own_sha256(table, get_entry_sha256_at(table, parent_of(i)), parent_of(i))

\* C25: in a node reachable by insert and remove that holds a key, changing any
\* single stored entry hash or node hash to a different value, without updating
\* the rest of the tree, makes the root reconstructed from the witness of at
\* least one present key differ from the root reconstructed before the change.
Tampered == <<3>>
Tamper(t, field, i) ==
    IF field = "entry_hashes" THEN [t EXCEPT !.entry_hashes[i] = Tampered]
    ELSE [t EXCEPT !.node_hashes[i] = Tampered]
ReconstructedRoot(t, key) == reconstruct(MerkleWitness(witness_key(t, key), <<>>))[2]

C25_TamperingChangesSomeRoot ==
    (table # NoTable /\ LiveKeys(table) # {}) =>
        \A i \in 0..(table.capacity - 1), field \in {"entry_hashes", "node_hashes"} :
            \E key \in LiveKeys(table) :
                ReconstructedRoot(Tamper(table, field, i), key) # ReconstructedRoot(table, key)

\* C26: after every allocate, reallocate, deallocate and retrieve, free_size
\* equals the sum of the total sizes (payload + 16) of exactly the blocks held
\* in the free lists.
RECURSIVE SumBlocks(_)
SumBlocks(blocks) ==
    IF blocks = <<>> THEN 0 ELSE get_total_size_bytes(Head(blocks)) + SumBlocks(Tail(blocks))

RECURSIVE SumBuckets(_, _)
SumBuckets(fb, keys) ==
    IF keys = {} THEN 0
    ELSE SumBlocks(fb[CHOOSE k \in keys : TRUE]) + SumBuckets(fb, keys \ {CHOOSE k \in keys : TRUE})

C26_FreeSizeIsSumOfFreeBlocks ==
    pc = "running" => free_size = SumBuckets(free_blocks, DOMAIN free_blocks)

\* a reallocation in place that split the merged block, with another free block around
C26_Witness ==
    /\ pc = "running"
    /\ last.op = "reallocate"
    /\ last.kind = "inplace"
    /\ FreeCount >= 2
    /\ \E f \in FreeSet : f.ptr = last.res.ptr + get_total_size_bytes(last.res)

\* C27: allocate(n) takes its block from the free lists whenever some free block
\* has payload >= pad(n), and then a block of the smallest such payload size,
\* the highest-address one among the blocks of that size; host memory is grown
\* only when no free block has payload >= pad(n), and after any growth max_ptr
\* equals size_pages * PAGE_SIZE.
Fitting(need) == {f \in FreeSet : f.size >= need}
BestFit(need) ==
    CHOOSE b \in Fitting(need) :
        \A f \in Fitting(need) : b.size < f.size \/ (b.size = f.size /\ b.ptr >= f.ptr)

C27_Step ==
    last'.op = "allocate" =>
        IF Fitting(pad_size(last'.req)) # {}
        THEN /\ last'.kind \notin Panics
             /\ last'.res.ptr = BestFit(pad_size(last'.req)).ptr
             /\ last'.res.size <= BestFit(pad_size(last'.req)).size
             /\ FreeSet' \cap {BestFit(pad_size(last'.req))} = {}
             /\ pages' = pages
             /\ max_ptr' = max_ptr
        ELSE last'.kind \notin Panics =>
             /\ max_ptr' = pages' * PAGE_SIZE_BYTES
             /\ max_ptr' > max_ptr
             /\ last'.res.ptr = (IF max_ptr = ALLOCATOR_PTR THEN MIN_PTR ELSE max_ptr)

C27_BestFitBeforeGrowth == [][C27_Step]_vars

\* the slice just allocated is a free block taken whole although a block of the
\* same size at a lower address, big enough as well, was in the free lists
C27_Witness ==
    /\ last.op = "allocate"
    /\ last.kind \notin Panics
    /\ \E f \in FreeSet :
          /\ f.size = last.res.size
          /\ f.size >= pad_size(last.req)
          /\ f.ptr < last.res.ptr

\* C28: when the block chosen by allocate(n) has payload >= pad(n) + 32, the
\* returned slice has payload exactly pad(n) and the remainder (payload >= 16)
\* is put into the free lists; otherwise the whole block is returned unsplit,
\* so a returned payload of pad(n) + 32 or more never occurs.
\* The block chosen: the best fit, or the block grown at the end of the memory.
GrownStart == IF max_ptr = ALLOCATOR_PTR THEN MIN_PTR ELSE max_ptr
Chosen(need) ==
    IF Fitting(need) # {} THEN BestFit(need)
    ELSE new_total_size(GrownStart, max_ptr' - GrownStart)

C28_Step ==
    (last'.op = "allocate" /\ last'.kind \notin Panics) =>
        /\ IF Chosen(pad_size(last'.req)).size >= pad_size(last'.req) + 32
           THEN /\ last'.res = FreeBlock(Chosen(pad_size(last'.req)).ptr, pad_size(last'.req))
                /\ FreeBlock(last'.res.ptr + get_total_size_bytes(last'.res),
                             Chosen(pad_size(last'.req)).size - get_total_size_bytes(last'.res))
                       \in FreeSet' \ FreeSet
                /\ Chosen(pad_size(last'.req)).size - get_total_size_bytes(last'.res) >= 16
           ELSE /\ last'.res = Chosen(pad_size(last'.req))
                /\ FreeSet' = FreeSet \ {Chosen(pad_size(last'.req))}
        /\ last'.res.size < pad_size(last'.req) + 32

C28_SplitWhenRemainderIsLegal == [][C28_Step]_vars

\* a split that left the smallest legal remainder, a payload of 16 bytes
C28_Witness ==
    /\ last.op = "allocate"
    /\ last.kind \notin Panics
    /\ last.res.size = pad_size(last.req)
    /\ FreeBlock(last.res.ptr + get_total_size_bytes(last.res), 16) \in FreeSet

\* C29: in every reachable allocator state the free-list index is well formed:
\* every block stored under size key s has payload exactly s, each per-size
\* sequence is strictly ascending by pointer, no pointer appears twice in the
\* same or in different buckets, and no size key maps to an empty sequence; the
\* unreachable!() branches of push_free_block and remove_free_block are never
\* reached.
WellFormed(fb) ==
    /\ \A s \in DOMAIN fb :
          /\ fb[s] # <<>>
          /\ \A i \in 1..Len(fb[s]) : fb[s][i].size = s
          /\ \A i \in 1..(Len(fb[s]) - 1) : fb[s][i].ptr < fb[s][i + 1].ptr
    /\ \A s \in DOMAIN fb, t \in DOMAIN fb :
          s # t => \A i \in 1..Len(fb[s]), j \in 1..Len(fb[t]) : fb[s][i].ptr # fb[t][j].ptr

C29_FreeListsWellFormed ==
    /\ WellFormed(free_blocks)
    /\ last.kind # "unreachable"

\* C30: for every key present in a capacity-7 node reachable by insert and
\* remove, folding the output of witness_key bottom-up (h = H(H(K || V) || left
\* || right) for the leaf, then for each following element H(entry || left ||
\* right) with the Hole replaced by the running h) yields exactly the stored
\* root hash; witness_key returns None exactly when the key is absent.
RECURSIVE FoldUp(_, _)
FoldUp(nodes, h) ==
    IF nodes = <<>> THEN h
    ELSE FoldUp(Tail(nodes),
                sha256_node(Head(nodes).key_value.digest,
                            IF Head(nodes).left_child = Hole THEN h
                            ELSE Head(nodes).left_child.digest,
                            IF Head(nodes).right_child = Hole THEN h
                            ELSE Head(nodes).right_child.digest))

Fold(nodes) ==
    FoldUp(Tail(nodes),
           sha256_node(sha256_entry(Head(nodes).key_value.k, Head(nodes).key_value.v),
                       Head(nodes).left_child.digest, Head(nodes).right_child.digest))

C30_FoldedWitnessIsRoot ==
    table.capacity = DEFAULT_CAPACITY =>
        \A key \in Keys :
            IF key \in LiveKeys(table)
            THEN /\ witness_key(table, key) # <<>>
                 /\ Head(witness_key(table, key)).key_value = Plain(key, ValueOf(table, key))
                 /\ Fold(witness_key(table, key)) = table.node_hashes[0]
            ELSE witness_key(table, key) = <<>>

\* after a removal that moved an entry back around the end of the table into
\* the last slot, two levels below the root, with the root slot occupied as well
C30_Witness ==
    /\ table.capacity = DEFAULT_CAPACITY
    /\ called.op = "remove"
    /\ called.key = 27
    /\ called.ret.some
    /\ table.len = 2
    /\ find_inner_idx(table, 55).idx = 6
    /\ Len(witness_key(table, 55)) = 3
    /\ table.keys[0].flag = OCCUPIED

\* C31: after remove on a capacity-7 node, including removals that back-shift
\* several entries, every index whose slot was rewritten or cleared, and each of
\* its ancestors up to the root, has a stored node hash equal to
\* H(e || stored left child hash || stored right child hash) over the final slot
\* contents: no stale hash is left on any touched path.
RECURSIVE PathToRoot(_)
PathToRoot(i) == IF i = 0 THEN {0} ELSE {i} \cup PathToRoot((i - 1) \div 2)

Rewritten(t, u) ==
    {i \in 0..(t.capacity - 1) :
        \/ t.keys[i] # u.keys[i]
        \/ t.values[i] # u.values[i]
        \/ t.entry_hashes[i] # u.entry_hashes[i]}

C31_Step ==
    (called'.op = "remove" /\ called'.ret.some /\ table.capacity = DEFAULT_CAPACITY) =>
        \A i \in Rewritten(table, table') : \A a \in PathToRoot(i) : MerkleAt(table', a)

C31_RemoveLeavesNoStaleHash == [][C31_Step]_vars

\* a removal at the last slot of a capacity-7 node that moved two entries, one
\* of them around the end of the table, and cleared slot 1
C31_Witness ==
    /\ table.capacity = DEFAULT_CAPACITY
    /\ Len(history) = 4
    /\ history[1].key = 27
    /\ history[2].key = 55
    /\ history[3].key = 0
    /\ called = Call("remove", 27, 0, [some |-> TRUE, value |-> history[1].value,
                                       root |-> table.node_hashes[0]])
    /\ table.keys[6] = [flag |-> OCCUPIED, key |-> 55]
    /\ table.keys[0] = [flag |-> OCCUPIED, key |-> 0]
    /\ table.keys[1].flag = EMPTY
    /\ MerkleAt(table, 1)

\* C32: the root hash returned by a successful insert (new key or update) and by
\* remove equals node_hashes[0] as stored in the node after the call, also when
\* the written or cleared index is 0 and when remove moved entries.
C32_Step ==
    /\ (called'.op = "insert" /\ called'.ret.variant = "Ok")
           => called'.ret.root = read_root_hash(table')
    /\ (called'.op = "remove" /\ called'.ret.some)
           => called'.ret.root = read_root_hash(table')

C32_ReturnedRootIsStored == [][C32_Step]_vars

\* a removal that moved the entry of slot 0 back into the last slot and cleared slot 0
C32_Witness ==
    /\ table # NoTable
    /\ called.op = "remove"
    /\ called.key = 27
    /\ called.ret.some
    /\ called.ret.root = read_root_hash(table)
    /\ table.len = 1
    /\ table.keys[table.capacity - 1] = [flag |-> OCCUPIED, key |-> 55]
    /\ table.keys[0].flag = EMPTY
    /\ table.keys[0].key = 55

\* C33: in every state reachable by insert and remove the probe-chain invariant
\* holds: for every occupied slot i whose key has home h = hash(K_i) mod C, all
\* slots on the cyclic walk from h up to i are occupied; remove's back-shift
\* restores it, also across the wrap from index C - 1 to 0.
Walk(h, i, C) == IF h <= i THEN h..i ELSE (h..(C - 1)) \cup (0..i)

ProbeChain(t) ==
    \A i \in 0..(t.capacity - 1) :
        t.keys[i].flag = OCCUPIED =>
            \A s \in Walk(hash(t.keys[i].key) % t.capacity, i, t.capacity) :
                t.keys[s].flag = OCCUPIED

C33_ProbeChainsUnbroken == table # NoTable => ProbeChain(table)

\* a removal at slot 0 that pulled back an entry whose home is the last slot:
\* its chain still runs across the end of the table
C33_Witness ==
    /\ table # NoTable
    /\ called.op = "remove"
    /\ called.key = 0
    /\ called.ret.some
    /\ table.keys[table.capacity - 1] = [flag |-> OCCUPIED, key |-> 27]
    /\ table.keys[0] = [flag |-> OCCUPIED, key |-> 55]
    /\ table.keys[1] = [flag |-> EMPTY, key |-> 55]

\* C34: in every state reachable by insert and remove, len is the number of slots
\* whose flag is OCCUPIED, every flag is EMPTY (0x00) or OCCUPIED (0xFF), and no key
\* is stored in two occupied slots.
OccupiedSlots(t) == {i \in 0..(t.capacity - 1) : t.keys[i].flag = OCCUPIED}
C34_LenCountsOccupiedSlots ==
    table # NoTable =>
        /\ EMPTY = 0 /\ OCCUPIED = 255
        /\ \A i \in 0..(table.capacity - 1) : table.keys[i].flag \in {EMPTY, OCCUPIED}
        /\ table.len = Cardinality(OccupiedSlots(table))
        /\ \A i, j \in OccupiedSlots(table) : table.keys[i].key = table.keys[j].key => i = j
\* a remove has shifted an entry back: the slot it came from still holds the bytes
\* of its key, behind an EMPTY flag, and the key is found in one occupied slot
C34_Witness ==
    /\ table # NoTable
    /\ called.op = "remove"
    /\ called.ret.some
    /\ table.len = 2
    /\ \E i \in OccupiedSlots(table) :
           \E j \in (0..(table.capacity - 1)) \ OccupiedSlots(table) :
               /\ table.keys[j].key = table.keys[i].key
               /\ table.keys[i].key # 0
               /\ find_inner_idx(table, table.keys[i].key).idx = i

\* C35: on a node of capacity C >= 1 reachable by insert and remove, the linear
\* probes of find_inner_idx, insert, remove and witness_key end, for keys that are
\* present and for keys that are absent: len <= loadCap(C) < C, so every reachable
\* state has an empty slot and no probe goes round the occupied slots for ever.
\* The probes are counted with a budget of C rounds; Endless is the count of a
\* probe that has not stopped when the budget is used up.
CapacityRange == 1..64
Endless(t) == t.capacity + 1
\* the probe of find_inner_idx and insert (and of remove and witness_key, which
\* start with find_inner_idx): slots read before an EMPTY slot or the key is met
RECURSIVE ProbeRounds(_, _, _, _)
ProbeRounds(t, key, i, n) ==
    IF n = t.capacity THEN Endless(t)
    ELSE IF t.keys[i].flag = EMPTY \/ t.keys[i].key = key THEN n
    ELSE ProbeRounds(t, key, (i + 1) % t.capacity, n + 1)
\* the loop of remove_by_idx from slot i: rounds before j = i or an EMPTY slot
RECURSIVE ShiftRounds(_, _, _, _)
ShiftRounds(t, i, j, n) ==
    IF j = i \/ t.keys[j].flag = EMPTY THEN n
    ELSE IF n = t.capacity THEN Endless(t)
    ELSE IF MayShift(t, i, j) THEN ShiftRounds(t, j, (j + 1) % t.capacity, n + 1)
    ELSE ShiftRounds(t, i, (j + 1) % t.capacity, n + 1)
C35_ProbesTerminate ==
    /\ \A C \in CapacityRange : loadCap(C) < C
    /\ table # NoTable =>
        /\ table.capacity >= 1
        /\ table.len <= loadCap(table.capacity)
        /\ \E i \in 0..(table.capacity - 1) : table.keys[i].flag = EMPTY
        /\ \A key \in Keys :
               ProbeRounds(table, key, hash(key) % table.capacity, 0) < table.capacity
        /\ \A i \in 0..(table.capacity - 1) :
               table.keys[i].flag = OCCUPIED =>
                   ShiftRounds(table, i, (i + 1) % table.capacity, 0) < table.capacity
\* a node at its load cap was probed for a key it does not hold: the probe started
\* at the last slot, went through every occupied slot across the wrap and stopped
\* at the one empty slot
C35_Witness ==
    /\ table # NoTable
    /\ called.op = "remove"
    /\ ~called.ret.some
    /\ table.len = loadCap(table.capacity)
    /\ hash(called.key) % table.capacity = table.capacity - 1
    /\ ProbeRounds(table, called.key, hash(called.key) % table.capacity, 0) = table.len
    /\ table.keys[0].flag = OCCUPIED
====
